---- MODULE Spec2Model ----
(***************************************************************************)
(* Model of src/app.py: the start-up data pipeline of the trader insights  *)
(* dashboard (read two CSV files, normalise their dates, inner-join them,  *)
(* derive the Win column, fall back to an empty table on any exception),   *)
(* the aggregates the layout computes from the joined table, and the       *)
(* serving of the static layout.                                           *)
(*                                                                         *)
(* Closed PnL values are modelled as exact integers (decimal units);       *)
(* floating-point rounding of pandas sums is not modelled.                 *)
(***************************************************************************)
EXTENDS Integers, Sequences, FiniteSets, TLC

\* Bounds of the model: the largest number of rows of each input file.
MaxTrades == 2
MaxSent == 2

VARIABLES pc, df_hist, df_fg, df, error, metrics, response, loads

vars == <<pc, df_hist, df_fg, df, error, metrics, response, loads>>

----------------------------------------------------------------------------
\* Values

\* pandas' null date, what errors='coerce' yields for an unparseable string.
NaT == 0

\* The mean of no values.
NaN == [num |-> 0, den |-> 0]

\* A name that is not bound yet (Python would raise NameError on a read).
NoTable == [cols |-> {}, rows |-> << >>]

HistFormat == "%d-%m-%Y %H:%M"

IsoFormat == "%Y-%m-%d"

\* A calendar date as a comparable value: time of day is dropped (.dt.date).
CalendarDate(s) == s.y * 10000 + s.m * 100 + s.d

\* Raw 'Timestamp IST' strings: two in the trade log's format, on different
\* days and at different times, and one valid date in another format.
TradeTimestamps ==
    { [fmt |-> HistFormat, y |-> 2021, m |-> 2, d |-> 1, hh |-> 9, mm |-> 15],
      [fmt |-> HistFormat, y |-> 2021, m |-> 2, d |-> 2, hh |-> 18, mm |-> 40],
      [fmt |-> IsoFormat, y |-> 2021, m |-> 2, d |-> 1, hh |-> 0, mm |-> 0] }

TradePnls == {-1, 0, 2}

\* Raw 'date' strings of the sentiment index: two ISO dates and garbage.
SentimentDates ==
    { [fmt |-> IsoFormat, y |-> 2021, m |-> 2, d |-> 1],
      [fmt |-> IsoFormat, y |-> 2021, m |-> 2, d |-> 2],
      [fmt |-> "unparseable", y |-> 0, m |-> 0, d |-> 0] }

Classifications == {"Fear", "Greed"}

\* All sequences over S of length at most n.
SeqUpTo(S, n) == UNION { [1..k -> S] : k \in 0..n }

----------------------------------------------------------------------------
\* The input files

HistCols == {"Timestamp IST", "Closed PnL", "Side", "Coin"}

FgCols == {"date", "classification"}

HistRow(ts, pnl) ==
    [c \in HistCols |->
        CASE c = "Timestamp IST" -> ts
          [] c = "Closed PnL" -> pnl
          [] c = "Side" -> "BUY"
          [] OTHER -> "BTC"]

FgRow(date, cls) ==
    [c \in FgCols |-> IF c = "date" THEN date ELSE cls]

\* A row, or a table, without one column.
DropCol(row, col) == [c \in (DOMAIN row) \ {col} |-> row[c]]

TableDropCol(tbl, col) ==
    [cols |-> tbl.cols \ {col},
     rows |-> [i \in 1..Len(tbl.rows) |-> DropCol(tbl.rows[i], col)]]

\* The trade logs read_csv can return: well-formed ones, and ones that lack
\* the timestamp column or the PnL column.
WellFormedHist ==
    { [cols |-> HistCols, rows |-> [i \in 1..Len(r) |-> HistRow(r[i][1], r[i][2])]] :
        r \in SeqUpTo(TradeTimestamps \X TradePnls, MaxTrades) }

HistFiles ==
    WellFormedHist
      \cup { TableDropCol([cols |-> HistCols,
                           rows |-> [i \in 1..Len(r) |-> HistRow(NaT, r[i])]],
                          "Timestamp IST") : r \in SeqUpTo(TradePnls, MaxTrades) }
      \cup { TableDropCol([cols |-> HistCols,
                           rows |-> [i \in 1..Len(r) |-> HistRow(r[i], 0)]],
                          "Closed PnL") : r \in SeqUpTo(TradeTimestamps, MaxTrades) }

WellFormedFg ==
    { [cols |-> FgCols, rows |-> [i \in 1..Len(r) |-> FgRow(r[i][1], r[i][2])]] :
        r \in SeqUpTo(SentimentDates \X Classifications, MaxSent) }

FgFiles ==
    WellFormedFg
      \cup { TableDropCol([cols |-> FgCols,
                           rows |-> [i \in 1..Len(r) |-> FgRow(NaT, r[i])]],
                          "date") : r \in SeqUpTo(Classifications, MaxSent) }

----------------------------------------------------------------------------
\* Date normalisation

\* Variant of ToDateWithFormat that ignores the format argument: an ISO string
\* is accepted, and a DD-MM-YYYY string is read month first.
ToDateAnyFormat(s, fmt) ==
    CASE s.fmt = IsoFormat -> CalendarDate(s)
      [] s.fmt = HistFormat -> s.y * 10000 + s.d * 100 + s.m
      [] OTHER -> NaT

\* pd.to_datetime(s, format=fmt, errors='coerce').dt.date
ToDateWithFormat(s, fmt) == IF s.fmt = fmt THEN CalendarDate(s) ELSE NaT

\* pd.to_datetime(s, errors='coerce').dt.date on the strings of
\* SentimentDates: an ISO date is recognised, anything else is coerced.
ToDateFlexible(s) == IF s.fmt = IsoFormat THEN CalendarDate(s) ELSE NaT

\* tbl with column col set, row by row, to vals.
WithColumn(tbl, col, vals) ==
    [cols |-> tbl.cols \cup {col},
     rows |-> [i \in 1..Len(tbl.rows) |->
                 [c \in tbl.cols \cup {col} |->
                     IF c = col THEN vals[i] ELSE tbl.rows[i][c]]]]

Column(tbl, col) == [i \in 1..Len(tbl.rows) |-> tbl.rows[i][col]]

----------------------------------------------------------------------------
\* The join

\* pandas matches the join key of two rows when the values are equal; two
\* null keys are given the same group label and match each other as well.
KeysMatch(a, b) == a = b

\* All (left row, right row) index pairs, left-major.
IndexPairs(nl, nr) ==
    [k \in 1..(nl * nr) |-> <<((k - 1) \div nr) + 1, ((k - 1) % nr) + 1>>]

\* The matched pairs in the order of the left rows (each left row's matches
\* in the order of the right rows).
MatchedPairs(left, right, key) ==
    SelectSeq(IndexPairs(Len(left.rows), Len(right.rows)),
              LAMBDA p : KeysMatch(left.rows[p[1]][key], right.rows[p[2]][key]))

\* The group label of a left row's key: keys are numbered by first
\* appearance in the left table, the null group comes last.
KeyLabel(left, key, i) ==
    IF left.rows[i][key] = NaT
    THEN Len(left.rows) + 1
    ELSE CHOOSE j \in 1..i :
            /\ left.rows[j][key] = left.rows[i][key]
            /\ \A h \in 1..(j - 1) : left.rows[h][key] # left.rows[i][key]

\* The matched pairs grouped by key label (pandas before 2.2).
RECURSIVE PairsByLabel(_, _, _, _)
PairsByLabel(pairs, left, key, label) ==
    IF label = 0
    THEN << >>
    ELSE PairsByLabel(pairs, left, key, label - 1)
           \o SelectSeq(pairs, LAMBDA p : KeyLabel(left, key, p[1]) = label)

\* The row orders pd.merge(how='inner') produces: the left rows' order
\* (pandas 2.2 and later) or the left keys' order (earlier versions).
RowOrders == {"left rows", "left keys"}

JoinedRow(l, r) == [c \in (DOMAIN l) \cup (DOMAIN r) |-> IF c \in DOMAIN l THEN l[c] ELSE r[c]]

\* pd.merge(left, right, on=key, how='inner')
Merge(left, right, key, order) ==
    LET byRow == MatchedPairs(left, right, key)
        pairs == IF order = "left rows"
                 THEN byRow
                 ELSE PairsByLabel(byRow, left, key, Len(left.rows) + 1)
    IN  [cols |-> left.cols \cup right.cols,
         rows |-> [k \in 1..Len(pairs) |->
                     JoinedRow(left.rows[pairs[k][1]], right.rows[pairs[k][2]])]]

\* Variant of Win that counts a break-even trade as a win.
WinNonNegative(x) == IF x >= 0 THEN 1 ELSE 0

\* lambda x: 1 if x > 0 else 0
Win(x) == IF x > 0 THEN 1 ELSE 0

\* Variant of FallbackTable that leaves the Win column out.
FallbackTableNoWin ==
    [cols |-> {"Date_Clean", "classification", "Closed PnL", "Side", "Coin"},
     rows |-> << >>]

\* The table the except branch substitutes.
FallbackTable ==
    [cols |-> {"Date_Clean", "classification", "Closed PnL", "Win", "Side", "Coin"},
     rows |-> << >>]

----------------------------------------------------------------------------
\* The aggregates of the layout

RECURSIVE Sum(_)
Sum(s) == IF s = << >> THEN 0 ELSE Sum(SubSeq(s, 1, Len(s) - 1)) + s[Len(s)]

\* Variant of Mean that yields 0 on no values.
MeanZeroOnEmpty(s) ==
    IF Len(s) = 0 THEN [num |-> 0, den |-> 1] ELSE [num |-> Sum(s), den |-> Len(s)]

\* Series.mean(): NaN on no values, else the exact fraction sum / count.
Mean(s) == IF Len(s) = 0 THEN NaN ELSE [num |-> Sum(s), den |-> Len(s)]

\* Series.cumsum()
CumSum(s) == [i \in 1..Len(s) |-> Sum(SubSeq(s, 1, i))]

Reverse(s) == [i \in 1..Len(s) |-> s[Len(s) + 1 - i]]

Min(S) == CHOOSE x \in S : \A y \in S : x <= y

\* What the default sort kind (quicksort, not a stable sort) does with rows
\* of equal key: it may keep their order or not; reversal stands for the
\* orders that do not.
TieOrders == {"kept", "reversed"}

RowsWithDate(rows, date, tie) ==
    LET g == SelectSeq(rows, LAMBDA r : r["Date_Clean"] = date)
    IN  IF tie = "kept" THEN g ELSE Reverse(g)

RECURSIVE SortedByDates(_, _, _)
SortedByDates(rows, dates, tie) ==
    IF dates = {}
    THEN << >>
    ELSE RowsWithDate(rows, Min(dates), tie)
           \o SortedByDates(rows, dates \ {Min(dates)}, tie)

\* df.sort_values('Date_Clean'): ascending, null dates last in their
\* original order (they do not go through the sort).
SortValues(tbl, tie) ==
    LET dates == { tbl.rows[i]["Date_Clean"] : i \in 1..Len(tbl.rows) } \ {NaT}
    IN  [cols |-> tbl.cols,
         rows |-> SortedByDates(tbl.rows, dates, tie)
                    \o RowsWithDate(tbl.rows, NaT, "kept")]

GroupKeys(tbl, col) == { tbl.rows[i][col] : i \in 1..Len(tbl.rows) }

Group(tbl, col, k) ==
    [cols |-> tbl.cols, rows |-> SelectSeq(tbl.rows, LAMBDA r : r[col] = k)]

\* Variant of TotalPnl that adds up the winning rows only.
TotalPnlOfWins(tbl) == Sum(Column(Group(tbl, "Win", 1), "Closed PnL"))

TotalPnl(tbl) == Sum(Column(tbl, "Closed PnL"))

TradeCount(tbl) == Len(tbl.rows)

WinRate(tbl) == Mean(Column(tbl, "Win"))

PnlBySentiment(tbl) ==
    [k \in GroupKeys(tbl, "classification") |->
        Column(Group(tbl, "classification", k), "Closed PnL")]

WinRateBySentiment(tbl) ==
    [k \in GroupKeys(tbl, "classification") |->
        Mean(Column(Group(tbl, "classification", k), "Win"))]

CumulativeX(tbl, tie) == Column(SortValues(tbl, tie), "Date_Clean")

CumulativeY(tbl, tie) == CumSum(Column(SortValues(tbl, tie), "Closed PnL"))

NoMetrics ==
    [totalPnl |-> 0, tradeCount |-> 0, winRate |-> NaN,
     pnlBySentiment |-> << >>, winRateBySentiment |-> << >>,
     cumulativeX |-> << >>, cumulativeY |-> << >>]

LayoutMetrics(tbl, tie) ==
    [totalPnl |-> TotalPnl(tbl),
     tradeCount |-> TradeCount(tbl),
     winRate |-> WinRate(tbl),
     pnlBySentiment |-> PnlBySentiment(tbl),
     winRateBySentiment |-> WinRateBySentiment(tbl),
     cumulativeX |-> CumulativeX(tbl, tie),
     cumulativeY |-> CumulativeY(tbl, tie)]

----------------------------------------------------------------------------
\* The program

Init ==
    /\ pc = "read_hist"
    /\ df_hist = NoTable
    /\ df_fg = NoTable
    /\ df = NoTable
    /\ error = "none"
    /\ metrics = NoMetrics
    /\ response = [served |-> FALSE, body |-> NoMetrics]
    /\ loads = 0

\* An exception raised inside the try block: control goes to the handler.
Raise(e) ==
    /\ error' = e
    /\ pc' = "except"

\* df_hist = pd.read_csv('historical_data_compressed.csv')
ReadHist ==
    /\ pc = "read_hist"
    /\ loads' = loads + 1
    /\ \/ /\ \E f \in HistFiles : df_hist' = f
          /\ pc' = "read_fg"
          /\ UNCHANGED error
       \/ /\ Raise("FileNotFoundError: historical_data_compressed.csv")
          /\ UNCHANGED df_hist
    /\ UNCHANGED <<df_fg, df, metrics, response>>

\* df_fg = pd.read_csv('fear_greed_index.csv')
ReadFg ==
    /\ pc = "read_fg"
    /\ \/ /\ \E f \in FgFiles : df_fg' = f
          /\ pc' = "parse_hist"
          /\ UNCHANGED error
       \/ /\ Raise("FileNotFoundError: fear_greed_index.csv")
          /\ UNCHANGED df_fg
    /\ UNCHANGED <<df_hist, df, metrics, response, loads>>

\* df_hist['Date_Clean'] = pd.to_datetime(df_hist['Timestamp IST'], ...).dt.date
ParseHist ==
    /\ pc = "parse_hist"
    /\ IF "Timestamp IST" \in df_hist.cols
       THEN /\ df_hist' = WithColumn(df_hist, "Date_Clean",
                             [i \in 1..Len(df_hist.rows) |->
                                ToDateWithFormat(df_hist.rows[i]["Timestamp IST"], HistFormat)])
            /\ pc' = "parse_fg"
            /\ UNCHANGED error
       ELSE /\ Raise("KeyError: Timestamp IST")
            /\ UNCHANGED df_hist
    /\ UNCHANGED <<df_fg, df, metrics, response, loads>>

\* df_fg['Date_Clean'] = pd.to_datetime(df_fg['date'], errors='coerce').dt.date
ParseFg ==
    /\ pc = "parse_fg"
    /\ IF "date" \in df_fg.cols
       THEN /\ df_fg' = WithColumn(df_fg, "Date_Clean",
                           [i \in 1..Len(df_fg.rows) |->
                              ToDateFlexible(df_fg.rows[i]["date"])])
            /\ pc' = "merge"
            /\ UNCHANGED error
       ELSE /\ Raise("KeyError: date")
            /\ UNCHANGED df_fg
    /\ UNCHANGED <<df_hist, df, metrics, response, loads>>

\* df = pd.merge(df_hist, df_fg, on='Date_Clean', how='inner')
MergeStep ==
    /\ pc = "merge"
    /\ \E order \in RowOrders : df' = Merge(df_hist, df_fg, "Date_Clean", order)
    /\ pc' = "win"
    /\ UNCHANGED <<df_hist, df_fg, error, metrics, response, loads>>

\* df['Win'] = df['Closed PnL'].apply(lambda x: 1 if x > 0 else 0)
DeriveWin ==
    /\ pc = "win"
    /\ IF "Closed PnL" \in df.cols
       THEN /\ df' = WithColumn(df, "Win",
                        [i \in 1..Len(df.rows) |-> Win(df.rows[i]["Closed PnL"])])
            /\ pc' = "layout"
            /\ UNCHANGED error
       ELSE /\ Raise("KeyError: Closed PnL")
            /\ UNCHANGED df
    /\ UNCHANGED <<df_hist, df_fg, metrics, response, loads>>

\* Variant of Except that reports the error and keeps whatever df holds.
ExceptKeepTable ==
    /\ pc = "except"
    /\ pc' = "layout"
    /\ UNCHANGED <<df_hist, df_fg, df, error, metrics, response, loads>>

\* except Exception as e: ... df = pd.DataFrame(columns=[...])
Except ==
    /\ pc = "except"
    /\ df' = FallbackTable
    /\ pc' = "layout"
    /\ UNCHANGED <<df_hist, df_fg, error, metrics, response, loads>>

\* app.layout = html.Div(...): the metrics and figures are computed once,
\* from df, when the layout is built.
Layout ==
    /\ pc = "layout"
    /\ \E tie \in TieOrders : metrics' = LayoutMetrics(df, tie)
    /\ pc' = "run"
    /\ UNCHANGED <<df_hist, df_fg, df, error, response, loads>>

\* app.run(debug=True)
Run ==
    /\ pc = "run"
    /\ pc' = "serving"
    /\ UNCHANGED <<df_hist, df_fg, df, error, metrics, response, loads>>

\* Variant of Render that rebuilds the joined table on every request.
RenderRefresh ==
    /\ pc = "serving"
    /\ df' = IF error = "none"
             THEN Merge(df_hist, df_fg, "Date_Clean", "left rows")
             ELSE FallbackTable
    /\ response' = [served |-> TRUE, body |-> metrics]
    /\ UNCHANGED <<pc, df_hist, df_fg, error, metrics, loads>>

\* A page request: the static layout is returned; there are no callbacks.
Render ==
    /\ pc = "serving"
    /\ response' = [served |-> TRUE, body |-> metrics]
    /\ UNCHANGED <<pc, df_hist, df_fg, df, error, metrics, loads>>

Next ==
    \/ ReadHist
    \/ ReadFg
    \/ ParseHist
    \/ ParseFg
    \/ MergeStep
    \/ DeriveWin
    \/ Except
    \/ Layout
    \/ Run
    \/ Render

Spec == Init /\ [][Next]_vars

----------------------------------------------------------------------------
\* Vocabulary of the properties

\* The table is in the hands of the presentation layer.
Loaded == pc \in {"layout", "run", "serving"}

\* The layout, with its metrics and figures, has been built.
MetricsReady == pc \in {"run", "serving"}

NoDay == << >>

\* The calendar day a raw trade timestamp denotes: year, month and day of a
\* string in the DD-MM-YYYY HH:MM pattern, none for any other string.
RefTradeDay(row) ==
    LET s == row["Timestamp IST"]
    IN  IF s.fmt = HistFormat THEN <<s.y, s.m, s.d>> ELSE NoDay

\* The calendar day a raw sentiment date denotes, none if it is no date.
RefSentDay(row) ==
    LET s == row["date"]
    IN  IF s.fmt = "unparseable" THEN NoDay ELSE <<s.y, s.m, s.d>>

\* Every sentiment row has a valid date and no two rows share one.
SentimentDatesValidAndDistinct ==
    /\ \A j \in 1..Len(df_fg.rows) : RefSentDay(df_fg.rows[j]) # NoDay
    /\ \A j, h \in 1..Len(df_fg.rows) :
          RefSentDay(df_fg.rows[j]) = RefSentDay(df_fg.rows[h]) => j = h

\* The trades whose day is the day of some sentiment row.
MatchedTrades ==
    { i \in 1..Len(df_hist.rows) :
        /\ RefTradeDay(df_hist.rows[i]) # NoDay
        /\ \E j \in 1..Len(df_fg.rows) :
              RefSentDay(df_fg.rows[j]) = RefTradeDay(df_hist.rows[i]) }

ClassificationOfTrade(i) ==
    LET j == CHOOSE h \in 1..Len(df_fg.rows) :
                 RefSentDay(df_fg.rows[h]) = RefTradeDay(df_hist.rows[i])
    IN  df_fg.rows[j]["classification"]

ExpectedJoined(i) ==
    <<df_hist.rows[i]["Timestamp IST"], df_hist.rows[i]["Closed PnL"],
      df_hist.rows[i]["Side"], df_hist.rows[i]["Coin"], ClassificationOfTrade(i)>>

ActualJoined(k) ==
    <<df.rows[k]["Timestamp IST"], df.rows[k]["Closed PnL"],
      df.rows[k]["Side"], df.rows[k]["Coin"], df.rows[k]["classification"]>>

\* The rows of the joined table that win, and those of one classification.
WinningRows == { k \in 1..Len(df.rows) : df.rows[k]["Closed PnL"] > 0 }

RowsOfClass(c) == { k \in 1..Len(df.rows) : df.rows[k]["classification"] = c }

\* Two fractions denote the same number.
SameFraction(a, b) == a.den > 0 /\ b.den > 0 /\ a.num * b.den = b.num * a.den

----------------------------------------------------------------------------
\* Properties

\* C1: when every sentiment row has a valid date and the dates are pairwise
\* distinct, the joined table holds exactly the trades whose calendar day is
\* the day of a sentiment row, each once and with that day's classification;
\* its row count is the number of such trades, and trades with an unmatched
\* or unparseable date are absent without any other row being lost.
C1_JoinIsExactlyMatchedTrades ==
    (Loaded /\ error = "none" /\ SentimentDatesValidAndDistinct) =>
        /\ Len(df.rows) = Cardinality(MatchedTrades)
        /\ \A i \in MatchedTrades :
              Cardinality({ k \in 1..Len(df.rows) : ActualJoined(k) = ExpectedJoined(i) })
                = Cardinality({ h \in MatchedTrades : ExpectedJoined(h) = ExpectedJoined(i) })
        /\ \A k \in 1..Len(df.rows) :
              \E i \in MatchedTrades : ActualJoined(k) = ExpectedJoined(i)

\* A trade with an unparseable timestamp is dropped while another trade is
\* kept, with the classification of its own day among two sentiment rows.
C1_Witness ==
    /\ pc = "serving" /\ error = "none" /\ SentimentDatesValidAndDistinct
    /\ Len(df_fg.rows) = 2
    /\ df_fg.rows[1]["classification"] # df_fg.rows[2]["classification"]
    /\ \E i \in 1..Len(df_hist.rows) : RefTradeDay(df_hist.rows[i]) = NoDay
    /\ MatchedTrades # {}
    /\ Len(df.rows) = Cardinality(MatchedTrades)

\* C2: a record whose date string fails to parse never matches in the join:
\* no row of the joined table has a null date key.
C2_NoNullDateInJoin ==
    (Loaded /\ error = "none") =>
        \A k \in 1..Len(df.rows) : df.rows[k]["Date_Clean"] # NaT

\* C3: when a load, parse or join step raises, the error is caught and the
\* table handed to the presentation layer has zero rows and the six columns
\* date, classification, closedPnl, win, side and coin.
C3_FallbackOnError ==
    (error # "none") =>
        /\ pc \in {"except", "layout", "run", "serving"}
        /\ pc = "except" => ENABLED Except
        /\ Loaded =>
              /\ df.rows = << >>
              /\ {"Date_Clean", "classification", "Closed PnL", "Win", "Side", "Coin"}
                    \subseteq df.cols

\* The sentiment file is missing although the trade log has rows, and the
\* page is served from the fallback table.
C3_Witness ==
    /\ error = "FileNotFoundError: fear_greed_index.csv"
    /\ Len(df_hist.rows) > 0
    /\ pc = "serving" /\ response.served
    /\ df.rows = << >>

\* C4: on an empty joined table, from the fallback or from an empty sentiment
\* source, building the layout does not fail and totalPnl = 0, tradeCount = 0,
\* winRate is NaN, both groupings are empty and the cumulative series is empty.
C4_EmptyTableAggregates ==
    /\ (Loaded /\ error = "none" /\ df_fg.rows = << >>) => df.rows = << >>
    /\ (pc = "layout" /\ df.rows = << >>) => ENABLED Layout
    /\ (MetricsReady /\ df.rows = << >>) =>
          /\ metrics.totalPnl = 0
          /\ metrics.tradeCount = 0
          /\ metrics.winRate = NaN
          /\ DOMAIN metrics.pnlBySentiment = {}
          /\ DOMAIN metrics.winRateBySentiment = {}
          /\ metrics.cumulativeX = << >>
          /\ metrics.cumulativeY = << >>

\* The sentiment source has no rows, the trade log has, nothing was raised.
C4_Witness ==
    /\ pc = "serving" /\ response.served /\ error = "none"
    /\ df_fg.rows = << >>
    /\ Len(df_hist.rows) > 0
    /\ df.rows = << >>

\* C5: totalPnl is the sum of closedPnl over the rows of the joined table, the
\* cumulative PnL series has tradeCount elements, and when tradeCount > 0 its
\* last element is totalPnl.
C5_TotalAndCumulative ==
    MetricsReady =>
        /\ metrics.tradeCount = Len(df.rows)
        /\ metrics.totalPnl = Sum([k \in 1..Len(df.rows) |-> df.rows[k]["Closed PnL"]])
        /\ Len(metrics.cumulativeX) = metrics.tradeCount
        /\ Len(metrics.cumulativeY) = metrics.tradeCount
        /\ metrics.tradeCount > 0 =>
              metrics.cumulativeY[metrics.tradeCount] = metrics.totalPnl

\* Two joined rows, a loss and a gain, that the sort by date has to swap.
C5_Witness ==
    /\ pc = "serving" /\ error = "none"
    /\ Len(df.rows) = 2
    /\ df.rows[1]["Date_Clean"] > df.rows[2]["Date_Clean"]
    /\ df.rows[2]["Date_Clean"] # NaT
    /\ df.rows[1]["Closed PnL"] < 0
    /\ df.rows[2]["Closed PnL"] > 0

\* C6: the cumulative PnL series is built from the joined rows in ascending
\* date order with rows of equal date in their joined-table order: the i-th
\* date is that of the i-th such row and the i-th running total is the sum of
\* closedPnl of the first i such rows.
C6_CumulativeIsStableSorted ==
    MetricsReady =>
        /\ metrics.cumulativeX = Column(SortValues(df, "kept"), "Date_Clean")
        /\ metrics.cumulativeY = CumSum(Column(SortValues(df, "kept"), "Closed PnL"))

\* C7: a joined row wins exactly when its closedPnl is above zero; winRate is
\* the number of winning rows over tradeCount, within [0,1], and
\* winRateBySentiment gives, for each classification present, the same
\* fraction over that classification's rows.
C7_WinAndRates ==
    /\ (Loaded /\ error = "none") =>
          \A k \in 1..Len(df.rows) :
             /\ df.rows[k]["Win"] \in {0, 1}
             /\ df.rows[k]["Win"] = 1 <=> df.rows[k]["Closed PnL"] > 0
    /\ (MetricsReady /\ Len(df.rows) > 0) =>
          /\ SameFraction(metrics.winRate,
                          [num |-> Cardinality(WinningRows), den |-> Len(df.rows)])
          /\ 0 <= metrics.winRate.num
          /\ metrics.winRate.num <= metrics.winRate.den
    /\ MetricsReady =>
          /\ DOMAIN metrics.winRateBySentiment
                = { df.rows[k]["classification"] : k \in 1..Len(df.rows) }
          /\ \A c \in DOMAIN metrics.winRateBySentiment :
                SameFraction(metrics.winRateBySentiment[c],
                             [num |-> Cardinality(WinningRows \cap RowsOfClass(c)),
                              den |-> Cardinality(RowsOfClass(c))])

\* A break-even trade under one classification and a gain under another.
C7_Witness ==
    /\ pc = "serving" /\ error = "none"
    /\ Len(df.rows) = 2
    /\ df.rows[1]["Closed PnL"] = 0
    /\ df.rows[2]["Closed PnL"] > 0
    /\ df.rows[1]["classification"] # df.rows[2]["classification"]

\* C8: the pipeline runs once, to completion, before a request is served, and
\* from then on no step changes the joined table or the aggregates: a render
\* request only reads them.
C8_ImmutableAfterInit ==
    [][ /\ pc = "serving" =>
              /\ pc' = "serving"
              /\ df' = df
              /\ metrics' = metrics
              /\ loads' = loads
        /\ response'.served =>
              /\ pc = "serving"
              /\ loads' = 1
              /\ response'.body = metrics' ]_vars

\* A non-empty joined table has been served.
C8_Witness ==
    /\ pc = "serving" /\ response.served
    /\ Len(df.rows) > 0
    /\ response.body = metrics

\* C10: the table seen by the presentation layer is either the complete
\* joined table with the win column on every row, or the zero-row fallback
\* table; a partially built table is never exposed.
C10_AllOrNothing ==
    Loaded =>
        \/ /\ error # "none"
           /\ df = FallbackTable
        \/ /\ error = "none"
           /\ "Win" \in df.cols
           /\ \A k \in 1..Len(df.rows) : "Win" \in DOMAIN df.rows[k]
           /\ \E order \in RowOrders :
                 TableDropCol(df, "Win") = Merge(df_hist, df_fg, "Date_Clean", order)

\* Deriving the win column failed after a merge that had produced rows, and
\* the page is served from the fallback table.
C10_Witness ==
    /\ error = "KeyError: Closed PnL"
    /\ pc = "serving" /\ response.served
    /\ \E i \in 1..Len(df_hist.rows) : \E j \in 1..Len(df_fg.rows) :
          df_hist.rows[i]["Date_Clean"] = df_fg.rows[j]["Date_Clean"]
    /\ df = FallbackTable

====
